---- MODULE Spec2Model ----
(***************************************************************************)
(* Model of the musicquiz application shell (src/musicquiz/src/musicquiz.rs *)
(* and main.rs): the MusicQuiz object (tracks, config), its construction   *)
(* with the configuration load, the per-frame update with the theme and    *)
(* close buttons, and on_exit with the configuration store.                *)
(*                                                                         *)
(* Rust indices are 0-based and TLA+ sequences 1-based: the element at     *)
(* Rust index i is element i + 1 of the TLA+ sequence.                     *)
(* A String is modelled as a TLA+ string; a formatted String               *)
(* (format!, to_string) as the sequence of its pieces, the decimal digits  *)
(* one piece each.                                                         *)
(***************************************************************************)
EXTENDS Integers, Sequences, FiniteSets

VARIABLES
    env,          \* what the directories crate finds on this machine
    disk,         \* the configuration file confy reads and writes
    phase,        \* "running" between new and on_exit, "off" otherwise
    tracks,       \* MusicQuiz.tracks
    config,       \* MusicQuiz.config
    frame,        \* what the last update call rendered
    closing,      \* frame.close() was called in the last update
    loaded,       \* history: the configuration new() put into the object
    loadOutcome,  \* history: how confy::load answered in new()
    clicks,       \* history: theme-button clicks since new()
    saved         \* history: the configuration on_exit stored, if it did

vars == <<env, disk, phase, tracks, config, frame, closing,
          loaded, loadOutcome, clicks, saved>>

(***************************************************************************)
(* Bounds of the model and program constants.                              *)
(***************************************************************************)
\* theme clicks counted per run of the application
MaxClicks == 3

\* (0..30) in MusicQuiz::new: the number of placeholder tracks
NumTracks == 30

(***************************************************************************)
(* Option and Result.                                                      *)
(***************************************************************************)
None == [some |-> FALSE]

Some(x) == [some |-> TRUE, val |-> x]

Ok(x) == [ok |-> TRUE, val |-> x]

Err == [ok |-> FALSE]

\* Option::unwrap_or
unwrap_or(o, d) == IF o.some THEN o.val ELSE d

\* Option<String>::unwrap_or_default and Option<&str>::unwrap_or_default
unwrap_or_default_str(o) == IF o.some THEN o.val ELSE ""

(***************************************************************************)
(* Paths.  A path is its bytes and whether they are valid UTF-8;           *)
(* Path::to_str answers None for a path that is not.                       *)
(***************************************************************************)
Path(bytes, utf8) == [bytes |-> bytes, utf8 |-> utf8]

to_str(p) == IF p.utf8 THEN Some(p.bytes) ELSE None

HomeDirs == {Path("/home/u", TRUE), Path("/home/<not utf-8>", FALSE)}

AudioDirs == {Path("/home/u/Music", TRUE), Path("/home/u/<not utf-8>", FALSE)}

\* The machines the application may run on: no home directory can be
\* determined, or there is one and perhaps an audio directory.
Envs ==
    {[home |-> None, audio |-> None]}
    \cup {[home |-> Some(h), audio |-> a] :
            h \in HomeDirs, a \in {None} \cup {Some(p) : p \in AudioDirs}}

\* directories::UserDirs::new(): None when no home directory can be determined
UserDirs_new(e) ==
    IF e.home.some THEN Some([home_dir |-> e.home.val, audio_dir |-> e.audio]) ELSE None

(***************************************************************************)
(* Formatting.                                                             *)
(***************************************************************************)
Digit(d) == <<"0", "1", "2", "3", "4", "5", "6", "7", "8", "9">>[d + 1]

RECURSIVE to_string(_)
\* usize::to_string: the decimal digits, most significant first
to_string(n) == IF n < 10 THEN <<Digit(n)>> ELSE to_string(n \div 10) \o <<Digit(n % 10)>>

\* format!("<prefix>{}", a)
format(prefix, a) == <<prefix>> \o to_string(a)

(***************************************************************************)
(* MusicQuizConfig and its Default.                                        *)
(***************************************************************************)
MusicQuizConfig(dark_mode, music_sources) ==
    [dark_mode |-> dark_mode, music_sources |-> music_sources]

\* get_music_dir with the home directory taken even when there is an audio
\* directory
get_music_dir_home_only(e) ==
    LET dirs == UserDirs_new(e)
        dir  == IF dirs.some THEN Some(dirs.val.home_dir) ELSE None
        str  == IF dir.some THEN Some(unwrap_or_default_str(to_str(dir.val))) ELSE None
    IN  unwrap_or_default_str(str)

\* the closure get_music_dir of MusicQuizConfig::default; each .map(..) is
\* the IF on the option it maps
get_music_dir(e) ==
    LET dirs == UserDirs_new(e)
        dir  == IF dirs.some
                THEN Some(unwrap_or(dirs.val.audio_dir, dirs.val.home_dir))
                ELSE None
        str  == IF dir.some THEN Some(unwrap_or_default_str(to_str(dir.val))) ELSE None
    IN  unwrap_or_default_str(str)

\* <MusicQuizConfig as Default>::default
MusicQuizConfig_default(e) == MusicQuizConfig(TRUE, get_music_dir(e))

(***************************************************************************)
(* The stored record.  #[derive(Serialize, Deserialize)] on MusicQuizConfig *)
(* with no serde attribute: serialising writes the two fields under their  *)
(* names; deserialising ignores a key that is no field, and fails on a     *)
(* field that is missing or holds a value of another type.  A value of the *)
(* file is its type and its text.                                          *)
(***************************************************************************)
Value(kind, text) == [kind |-> kind, text |-> text]

Fields == {"dark_mode", "music_sources"}

ser_bool(b) == Value("bool", IF b THEN "true" ELSE "false")

ser_str(s) == Value("str", s)

de_bool(v) == IF v.kind = "bool" THEN Ok(v.text = "true") ELSE Err

de_str(v) == IF v.kind = "str" THEN Ok(v.text) ELSE Err

\* serialize with the music_sources field skipped
serialize_skipping_music_sources(c) ==
    [k \in {"dark_mode"} |-> ser_bool(c.dark_mode)]

\* <MusicQuizConfig as Serialize>::serialize
serialize(c) ==
    [k \in Fields |->
        IF k = "dark_mode" THEN ser_bool(c.dark_mode) ELSE ser_str(c.music_sources)]

\* <MusicQuizConfig as Deserialize>::deserialize
deserialize(table) ==
    IF ~(Fields \subseteq DOMAIN table) THEN Err
    ELSE LET dm == de_bool(table["dark_mode"])
             ms == de_str(table["music_sources"])
         IN  IF dm.ok /\ ms.ok THEN Ok(MusicQuizConfig(dm.val, ms.val)) ELSE Err

(***************************************************************************)
(* The configuration file, as confy sees it: absent, unparsable, or a      *)
(* table of keys.                                                          *)
(***************************************************************************)
EmptyTable == [k \in {} |-> Value("", "")]

Absent == [state |-> "absent", table |-> EmptyTable]

Garbage == [state |-> "garbage", table |-> EmptyTable]

File(table) == [state |-> "toml", table |-> table]

\* Keys a file found at the first start may hold: the two fields and a key
\* that is no field of MusicQuizConfig.
Keys == Fields \cup {"rounds_per_session"}

\* Values such a file may hold under a key, well-typed or not.
Candidates(k) ==
    IF k = "dark_mode" THEN {ser_bool(TRUE), ser_bool(FALSE), ser_str("yes")}
    ELSE IF k = "music_sources" THEN {ser_str("/mnt/music"), Value("int", "7")}
    ELSE {Value("int", "10")}

Tables ==
    UNION {{t \in [S -> UNION {Candidates(k) : k \in S}] : \A k \in S : t[k] \in Candidates(k)} :
             S \in SUBSET Keys}

Disks == {Absent, Garbage} \cup {File(t) : t \in Tables}

\* confy::load("MusicQuiz", None): the file's record; a file that does not
\* exist is created holding the defaults, which are returned.
confy_load(d, e) ==
    IF d.state = "absent"
    THEN [res |-> Ok(MusicQuizConfig_default(e)),
          disk |-> File(serialize(MusicQuizConfig_default(e))),
          outcome |-> "created"]
    ELSE IF d.state = "garbage"
    THEN [res |-> Err, disk |-> d, outcome |-> "err"]
    ELSE LET r == deserialize(d.table)
         IN  [res |-> r, disk |-> d, outcome |-> IF r.ok THEN "ok" ELSE "err"]

\* Result<MusicQuizConfig, _>::unwrap_or_default
unwrap_or_default_config(r, e) == IF r.ok THEN r.val ELSE MusicQuizConfig_default(e)

\* confy::store("MusicQuiz", None, &self.config): the file as it is left.
\* A store that fails leaves the file as it was, or created and not written.
confy_store(d, c, outcome) ==
    IF outcome = "ok" THEN File(serialize(c))
    ELSE IF outcome = "failed_untouched" THEN d
    ELSE Garbage

StoreOutcomes == {"ok", "failed_untouched", "failed_truncated"}

(***************************************************************************)
(* MusicQuiz::new                                                          *)
(***************************************************************************)
TrackCardData(a) ==
    [album |-> format("Album #", a), artist |-> format("Artist ", a),
     title |-> format("Song Nr", a)]

\* Vec::from_iter((0..30).map(|a| TrackCardData {..}))
PlaceholderTracks == [i \in 1..NumTracks |-> TrackCardData(i - 1)]

NoFrame ==
    [rendered |-> FALSE, click |-> "none", visuals |-> "none", icon |-> "none",
     hyperlink_color |-> << >>, cards |-> << >>]

\* While the application is not running there is no MusicQuiz object: the
\* variables that hold it and its history keep these values.
NoConfig == MusicQuizConfig(FALSE, "")

NoSave == [some |-> FALSE, val |-> NoConfig, clicks |-> 0]

\* The machine before the application is started: what the directories crate
\* will find, and the configuration file a former start, another version or
\* the user left.
Init ==
    /\ env \in Envs
    /\ disk \in Disks
    /\ phase = "off"
    /\ tracks = << >>
    /\ config = NoConfig
    /\ frame = NoFrame
    /\ closing = FALSE
    /\ loaded = NoConfig
    /\ loadOutcome = "none"
    /\ clicks = 0
    /\ saved = NoSave

\* MusicQuiz::new, called by run_native at every start of the application.
\* (configure_fonts sets fonts of the egui context, which nothing here reads.)
new ==
    /\ phase = "off"
    /\ LET l == confy_load(disk, env)
           c == unwrap_or_default_config(l.res, env)
       IN  /\ disk' = l.disk
           /\ tracks' = PlaceholderTracks
           /\ config' = c
           /\ loaded' = c
           /\ loadOutcome' = l.outcome
    /\ phase' = "running"
    /\ frame' = NoFrame
    /\ closing' = FALSE
    /\ clicks' = 0
    /\ UNCHANGED <<env, saved>>

(***************************************************************************)
(* Rendering.  Each render function is modelled by what it hands to egui.  *)
(***************************************************************************)
COLOR_DKORANGE == <<252, 78, 3>>

COLOR_ORANGE == <<252, 152, 3>>

Color32_WHITE == <<255, 255, 255>>

Color32_BLACK == <<0, 0, 0>>

\* the Material icon code points of the theme button
ICON_SUNRISE == "e1c6"

ICON_MOON == "e51c"

\* What the pointer does during one update call: one click lands on at most
\* one widget.
Clicks == {"none", "theme", "close"}

\* render_track_card: the numeral and the three lines of one card
render_track_card(c, number, track) ==
    [number |-> to_string(number),
     number_color |-> IF c.dark_mode THEN Color32_WHITE ELSE Color32_BLACK,
     title |-> track.title, artist |-> track.artist, album |-> track.album]

\* MusicQuiz::render_track_cards: enumerate() numbers the tracks from 0
render_track_cards(c, ts) ==
    [i \in 1..Len(ts) |-> render_track_card(c, i - 1, ts[i])]

\* render_top_panel with the theme click switching dark mode off instead of
\* flipping it
render_top_panel_set_light(c, click) ==
    [icon   |-> IF c.dark_mode THEN ICON_SUNRISE ELSE ICON_MOON,
     close  |-> click = "close",
     config |-> IF click = "theme" THEN [c EXCEPT !.dark_mode = FALSE] ELSE c]

\* MusicQuiz::render_top_panel: the theme icon is chosen before the buttons
\* are added; a click on the theme button then flips config.dark_mode, a
\* click on the close button calls frame.close().
render_top_panel(c, click) ==
    [icon   |-> IF c.dark_mode THEN ICON_SUNRISE ELSE ICON_MOON,
     close  |-> click = "close",
     config |-> IF click = "theme" THEN [c EXCEPT !.dark_mode = ~c.dark_mode] ELSE c]

\* render_footer: the hyperlink colour
render_footer(c) == IF c.dark_mode THEN COLOR_DKORANGE ELSE COLOR_ORANGE

\* the match at the head of App::update
set_visuals(c) == IF c.dark_mode THEN "dark" ELSE "light"

(***************************************************************************)
(* App::update and App::on_exit                                            *)
(***************************************************************************)
\* One update call: visuals, top panel (with the click), footer, cards, in
\* the order of the code; the footer and the cards read self.config after
\* render_top_panel has returned.
update(click) ==
    /\ phase = "running"
    /\ ~closing
    /\ click = "theme" => clicks < MaxClicks
    /\ LET visuals == set_visuals(config)
           top     == render_top_panel(config, click)
           footer  == render_footer(top.config)
           cards   == render_track_cards(top.config, tracks)
       IN  /\ config' = top.config
           /\ closing' = top.close
           /\ frame' = [rendered |-> TRUE, click |-> click, visuals |-> visuals,
                        icon |-> top.icon, hyperlink_color |-> footer,
                        cards |-> cards]
    /\ clicks' = IF click = "theme" THEN clicks + 1 ELSE clicks
    /\ UNCHANGED <<env, disk, phase, tracks, loaded, loadOutcome, saved>>

\* App::on_exit, called when the window closes (frame.close() or the window
\* manager): stores the configuration; expect() panics when the store fails.
\* Either way the process ends and the object is gone.
on_exit(outcome) ==
    /\ phase = "running"
    /\ disk' = confy_store(disk, config, outcome)
    /\ saved' = IF outcome = "ok"
                THEN [some |-> TRUE, val |-> config, clicks |-> clicks]
                ELSE NoSave
    /\ phase' = "off"
    /\ tracks' = << >>
    /\ config' = NoConfig
    /\ frame' = NoFrame
    /\ closing' = FALSE
    /\ loaded' = NoConfig
    /\ loadOutcome' = "none"
    /\ clicks' = 0
    /\ UNCHANGED env

Next ==
    \/ new
    \/ \E click \in Clicks : update(click)
    \/ \E outcome \in StoreOutcomes : on_exit(outcome)

Spec == Init /\ [][Next]_vars

(***************************************************************************)
(* Properties.                                                             *)
(***************************************************************************)
\* a String equal to a path: the path is valid UTF-8 and these are its bytes
IsPath(s, p) == p.utf8 /\ s = p.bytes

\* the step is a start of the application / its exit
IsNew == phase = "off" /\ phase' = "running"

IsExit == phase = "running" /\ phase' = "off"

\* C5, as stated: when no stored configuration could be loaded at startup,
\* the configuration has dark_mode = true and music_sources is the audio
\* directory when there is one and the home directory otherwise, so always
\* one of those two paths.
C5_DefaultIsAudioOrHome ==
    (phase = "running" /\ loadOutcome \in {"created", "err"}) =>
        /\ loaded.dark_mode = TRUE
        /\ IF env.audio.some
           THEN IsPath(loaded.music_sources, env.audio.val)
           ELSE env.home.some /\ IsPath(loaded.music_sources, env.home.val)

\* C5, amended: when no stored configuration could be loaded at startup, the
\* configuration has dark_mode = true, and music_sources is the audio
\* directory when there is one and the home directory otherwise provided
\* that path is valid UTF-8; it is the empty string when no home directory
\* can be determined or the path is not valid UTF-8.
C5_DefaultIsAudioOrHomeOrEmpty ==
    (phase = "running" /\ loadOutcome \in {"created", "err"}) =>
        /\ loaded.dark_mode = TRUE
        /\ LET chosen == IF env.audio.some THEN env.audio ELSE env.home
           IN  IF chosen.some /\ chosen.val.utf8
               THEN loaded.music_sources = chosen.val.bytes
               ELSE loaded.music_sources = ""

\* C5 witness: an unreadable file was found on a machine with a home
\* directory and no audio directory, and the home directory is in use.
C5_Witness ==
    /\ phase = "running"
    /\ loadOutcome = "err"
    /\ ~env.audio.some
    /\ env.home.some
    /\ loaded.music_sources = "/home/u"
    /\ config = loaded

\* every field the table holds has a value of the field's type
WellTyped(table) ==
    /\ "dark_mode" \in DOMAIN table => table["dark_mode"].kind = "bool"
    /\ "music_sources" \in DOMAIN table => table["music_sources"].kind = "str"

\* C6: loading a stored record, a key that is no field is ignored, a field
\* that is missing takes its default and a field that is present keeps its
\* stored value.
C6_LoadKeepsPresentKeys ==
    (phase = "running" /\ loadOutcome \in {"ok", "err"}
        /\ disk.state = "toml" /\ WellTyped(disk.table)) =>
        /\ loaded.dark_mode =
              IF "dark_mode" \in DOMAIN disk.table
              THEN disk.table["dark_mode"].text = "true"
              ELSE TRUE
        /\ loaded.music_sources =
              IF "music_sources" \in DOMAIN disk.table
              THEN disk.table["music_sources"].text
              ELSE get_music_dir(env)

\* C7: the card at 0-based index i of the list shows the track number i + 1.
C7_CardShowsIndexPlusOne ==
    frame.rendered =>
        \A i \in 0..(Len(frame.cards) - 1) : frame.cards[i + 1].number = to_string(i + 1)

\* C8, as stated: the configuration file is written by on_exit only, and a
\* start that follows an exit with a successful store loads the
\* configuration that was in memory at that exit.
C8_WrittenOnlyByOnExit ==
    [][/\ disk' # disk => IsExit
       /\ (IsNew /\ saved.some) => (loaded' = saved.val /\ config' = saved.val)]_vars

\* C8, amended: the configuration file is written by on_exit and, when no
\* file exists, by the load in MusicQuiz::new (which creates it holding the
\* defaults), never by an update call or a click; a start that follows an
\* exit with a successful store loads the configuration that was in memory
\* at that exit.
C8_WrittenByOnExitOrFirstLoad ==
    [][/\ disk' # disk => (IsExit \/ (IsNew /\ disk.state = "absent"))
       /\ (IsNew /\ saved.some) => (loaded' = saved.val /\ config' = saved.val)]_vars

\* C8 witness: the application runs again after an exit that stored a
\* configuration changed by clicks to light mode, and has loaded it.
C8_Witness ==
    /\ phase = "running"
    /\ saved.some
    /\ saved.clicks > 0
    /\ ~saved.val.dark_mode
    /\ loadOutcome = "ok"
    /\ loaded = saved.val

\* C9: while the application runs, dark_mode is the loaded value flipped
\* once per theme click (so an even number of clicks restores it), and
\* music_sources and the 30 placeholder tracks are as new() made them.
C9_ClickFlipsOnlyDarkMode ==
    phase = "running" =>
        /\ config.dark_mode = (IF clicks % 2 = 0 THEN loaded.dark_mode ELSE ~loaded.dark_mode)
        /\ config.music_sources = loaded.music_sources
        /\ Len(tracks) = NumTracks
        /\ \A i \in 1..NumTracks :
              /\ tracks[i].title = format("Song Nr", i - 1)
              /\ tracks[i].artist = format("Artist ", i - 1)
              /\ tracks[i].album = format("Album #", i - 1)

\* C9 witness: the second theme click has just been handled and the
\* configuration is the loaded one again.
C9_Witness ==
    /\ phase = "running"
    /\ frame.rendered
    /\ frame.click = "theme"
    /\ clicks = 2
    /\ config = loaded

\* the four theme-dependent outputs of a frame, as derived from dark_mode = b
ThemedAs(f, b) ==
    /\ f.visuals = (IF b THEN "dark" ELSE "light")
    /\ f.icon = (IF b THEN ICON_SUNRISE ELSE ICON_MOON)
    /\ f.hyperlink_color = (IF b THEN COLOR_DKORANGE ELSE COLOR_ORANGE)
    /\ \A i \in 1..Len(f.cards) :
          f.cards[i].number_color = (IF b THEN Color32_WHITE ELSE Color32_BLACK)

\* C10: in every update call, the one with the theme click included, the
\* visuals, the theme icon, the numeral colour and the hyperlink colour are
\* derived from one dark_mode value.
C10_FrameHasOneTheme ==
    frame.rendered => \E b \in BOOLEAN : ThemedAs(frame, b)

\* What does hold of a frame: without a theme click all four outputs follow
\* config.dark_mode; with one, the visuals and the icon follow the value
\* before the click and the numerals and the hyperlinks the flipped value.
FrameThemeAsRendered ==
    frame.rendered =>
        LET after  == config.dark_mode
            before == IF frame.click = "theme" THEN ~after ELSE after
        IN  /\ frame.visuals = (IF before THEN "dark" ELSE "light")
            /\ frame.icon = (IF before THEN ICON_SUNRISE ELSE ICON_MOON)
            /\ frame.hyperlink_color = (IF after THEN COLOR_DKORANGE ELSE COLOR_ORANGE)
            /\ \A i \in 1..Len(frame.cards) :
                  frame.cards[i].number_color =
                      (IF after THEN Color32_WHITE ELSE Color32_BLACK)

====
